---- MODULE Spec2Model ----
(***************************************************************************)
(* Pipeline orchestration of scripts/ci_cd_manager.py: one CICDManager,    *)
(* its artifact registry (build_artifacts), the nine stages of             *)
(* run_full_pipeline, the external processes the stages launch, and the    *)
(* files those processes and the orchestrator leave on disk.               *)
(***************************************************************************)
EXTENDS Naturals, Sequences, FiniteSets, TLC

VARIABLES
    config,           \* BuildConfig of the current run_full_pipeline call
    pc,               \* "idle" | the stage the orchestrator is at | "done"
    running,          \* the stage whose body is executing, or "none"
    proc,             \* outcome of the running stage's subprocess.run, or "none"
    started,          \* stages started in the current run, in order
    returned,         \* stage -> "none" | "True" | "False" | "raised" (this run)
    outcome,          \* stage -> outcome of its external process (this run)
    build_artifacts,  \* self.build_artifacts: name -> path, None when absent
    fs,               \* artifact files that exist on disk
    reports,          \* report files written in the current run
    summary_doc,      \* content of artifacts/build_summary.json, None if absent
    summary_written,  \* build_summary.json was written in the current run
    registered,       \* names written to build_artifacts in the current run
    result,           \* return value of run_full_pipeline: "none"|"True"|"False"
    runs,             \* run_full_pipeline calls made on this manager
    \* scripts/performance_tests.py
    monitoring,       \* monitor -> self.monitoring
    metrics,          \* monitor -> self.metrics, the sample buffer
    threads,          \* sampler thread -> its monitor and its position
    child,            \* the monitored external process
    main,             \* the thread that calls start_monitoring/stop_monitoring
    rets,             \* values returned by stop_monitoring, in call order
    \* scripts/security_scan.py, scripts/package.py, PerformanceTester
    scanner,          \* one SecurityScanner and its run_full_scan call
    builder,          \* one PackageBuilder and its create_package call
    tester,           \* one PerformanceTester and its run_all_tests call
    conc,             \* one test_concurrent_operations call and its workers
    runner            \* one TestRunner and its run_all_tests call

perfvars == <<monitoring, metrics, threads, child, main, rets>>

toolvars == <<scanner, builder, tester>>

harnessvars == <<conc, runner>>

vars == <<config, pc, running, proc, started, returned, outcome,
          build_artifacts, fs, reports, summary_doc, summary_written,
          registered, result, runs, perfvars, toolvars, harnessvars>>

----------------------------------------------------------------------------
(* Bounds *)

MaxRuns == 2

----------------------------------------------------------------------------
(* Data *)

None == <<>>

Platforms == {"x64", "x86"}

Configurations == {"Release"}

BuildConfig ==
    [platform : Platforms, config : Configurations,
     enable_tests : BOOLEAN, enable_security_scan : BOOLEAN,
     enable_performance_test : BOOLEAN, enable_packaging : BOOLEAN]

\* BuildConfig(): the dataclass defaults.
DefaultConfig ==
    [platform |-> "x64", config |-> "Release",
     enable_tests |-> TRUE, enable_security_scan |-> TRUE,
     enable_performance_test |-> TRUE, enable_packaging |-> TRUE]

StageOrder ==
    << "_setup_environment", "_run_build", "_run_unit_tests",
       "_run_integration_tests", "_run_security_scan",
       "_run_performance_tests", "_run_static_analysis",
       "_run_packaging", "_final_verification" >>

Stages == { StageOrder[i] : i \in 1..Len(StageOrder) }

StageIndex(s) == CHOOSE i \in 1..Len(StageOrder) : StageOrder[i] = s

\* Outcomes of subprocess.run: a completed process with exit code zero or
\* non-zero, subprocess.TimeoutExpired, or an OSError at launch.
ProcOutcomes == {"exit0", "nonzero", "timeout", "launchfail"}

ProcessStages ==
    { "_run_build", "_run_unit_tests", "_run_integration_tests",
      "_run_security_scan", "_run_performance_tests", "_run_packaging" }

ArtifactNames == {"binary", "package"}

BinaryPath(cfg) ==
    <<"build", cfg.platform, "src", "cli", cfg.config, "mcp-debugger.exe">>

\* PackagePath without the version in the file name.
PackagePath_no_version(cfg) ==
    <<"artifacts", "MCP-Debugger", cfg.platform, "zip">>

PackagePath(cfg) ==
    <<"artifacts", "MCP-Debugger", "1.0.0", cfg.platform, "zip">>

\* package.py: PACKAGE_CONFIG, the package name of PackageBuilder.__init__
\* and the zip_path of _create_zip_archive, as path components.
PACKAGE_CONFIG == [name |-> "MCP-Debugger", version |-> "1.0.0"]

package_name(platform) ==
    <<PACKAGE_CONFIG.name, PACKAGE_CONFIG.version, platform>>

ZipPath(platform, output_dir) ==
    <<output_dir>> \o package_name(platform) \o <<"zip">>

AllPaths ==
    { BinaryPath(c) : c \in BuildConfig } \cup { PackagePath(c) : c \in BuildConfig }

ReportFile(s) ==
    CASE s = "_run_unit_tests"        -> "reports/unit_tests.txt"
      [] s = "_run_integration_tests" -> "reports/integration_tests.txt"
      [] s = "_run_security_scan"     -> "reports/security_scan.txt"
      [] s = "_run_performance_tests" -> "reports/performance_tests.txt"

EmptyRegistry == [n \in ArtifactNames |-> None]

NoHistory == [s \in Stages |-> "none"]

----------------------------------------------------------------------------
(* Orchestrator: run_full_pipeline *)

\* StageEnabled with the integration tests called whatever enable_tests is.
StageEnabled_integration_always(s, cfg) ==
    CASE s = "_run_unit_tests"        -> cfg.enable_tests
      [] s = "_run_security_scan"     -> cfg.enable_security_scan
      [] s = "_run_performance_tests" -> cfg.enable_performance_test
      [] s = "_run_packaging"         -> cfg.enable_packaging
      [] OTHER                        -> TRUE

\* The toggle in front of each stage call.
StageEnabled(s, cfg) ==
    CASE s = "_run_unit_tests"        -> cfg.enable_tests
      [] s = "_run_integration_tests" -> cfg.enable_tests
      [] s = "_run_security_scan"     -> cfg.enable_security_scan
      [] s = "_run_performance_tests" -> cfg.enable_performance_test
      [] s = "_run_packaging"         -> cfg.enable_packaging
      [] OTHER                        -> TRUE

\* The first stage from position i on whose toggle is on; past the last
\* stage the pipeline completes.
\* StageFrom without the toggles: a disabled stage is started as well.
StageFrom_no_toggle(i, cfg) ==
    IF i > Len(StageOrder) THEN "done" ELSE StageOrder[i]

RECURSIVE StageFrom(_, _)
StageFrom(i, cfg) ==
    IF i > Len(StageOrder) THEN "done"
    ELSE IF StageEnabled(StageOrder[i], cfg) THEN StageOrder[i]
    ELSE StageFrom(i + 1, cfg)

NextStage(s, cfg) == StageFrom(StageIndex(s) + 1, cfg)

\* Stages whose False return makes run_full_pipeline execute `return False`.
ReturnFalseOn ==
    { "_setup_environment", "_run_build", "_run_unit_tests",
      "_run_integration_tests", "_run_packaging", "_final_verification" }

\* Aborts with the `return False` after _run_unit_tests missing.
Aborts_unit_tests_continue(s, r) ==
    \/ r = "raised"
    \/ r = "False" /\ s \in ReturnFalseOn \ {"_run_unit_tests"}

\* Aborts without the `except Exception` of run_full_pipeline.
Aborts_no_except(s, r) ==
    r = "False" /\ s \in ReturnFalseOn

Aborts(s, r) ==
    \/ r = "raised"
    \/ r = "False" /\ s \in ReturnFalseOn

\* The orchestrator's step once the body of stage s has produced r.
Decide(s, r) ==
    /\ running' = "none"
    /\ proc' = "none"
    /\ returned' = [returned EXCEPT ![s] = r]
    /\ IF Aborts(s, r)
       THEN pc' = "done" /\ result' = "False"
       ELSE /\ pc' = NextStage(s, config)
            /\ result' = IF pc' = "done" THEN "True" ELSE result

run_full_pipeline(cfg) ==
    /\ pc \in {"idle", "done"}
    /\ runs < MaxRuns
    /\ runs' = runs + 1
    /\ config' = cfg
    /\ pc' = StageFrom(1, cfg)
    /\ running' = "none"
    /\ proc' = "none"
    /\ started' = <<>>
    /\ returned' = NoHistory
    /\ outcome' = NoHistory
    /\ reports' = {}
    /\ summary_written' = FALSE
    /\ registered' = {}
    /\ result' = "none"
    /\ UNCHANGED <<build_artifacts, fs, summary_doc>>
    /\ UNCHANGED perfvars
    /\ UNCHANGED toolvars
    /\ UNCHANGED harnessvars

\* CallStage that does not wait for the running stage to return.
CallStage_no_wait(s) ==
    /\ pc = s
    /\ Len(started) < Len(StageOrder)
    /\ running' = s
    /\ started' = Append(started, s)
    /\ UNCHANGED <<config, pc, proc, returned, outcome, build_artifacts, fs,
                   reports, summary_doc, summary_written, registered, result, runs>>
    /\ UNCHANGED perfvars
    /\ UNCHANGED toolvars
    /\ UNCHANGED harnessvars

\* The orchestrator calls the stage it is at.
CallStage(s) ==
    /\ pc = s
    /\ running = "none"
    /\ running' = s
    /\ started' = Append(started, s)
    /\ UNCHANGED <<config, pc, proc, returned, outcome, build_artifacts, fs,
                   reports, summary_doc, summary_written, registered, result, runs>>
    /\ UNCHANGED perfvars
    /\ UNCHANGED toolvars
    /\ UNCHANGED harnessvars

----------------------------------------------------------------------------
(* External processes and the environment *)

\* The artifact file the external process of stage s is meant to produce.
Produces(s, cfg) ==
    CASE s = "_run_build"     -> {BinaryPath(cfg)}
      [] s = "_run_packaging" -> {ZipPath(cfg.platform, "artifacts")}
      [] OTHER                -> {}

\* Integration and performance tests launch their process only when the
\* registry holds a binary path.
NeedsBinary(s) == s \in {"_run_integration_tests", "_run_performance_tests"}

Launches(s) ==
    /\ s \in ProcessStages
    /\ NeedsBinary(s) => build_artifacts["binary"] # None

\* subprocess_run with no timeout= on the unit tests' process, for a process
\* that never exits: the call does not return.
subprocess_run_hangs(s, o, creates) ==
    /\ s # "_run_unit_tests"
    /\ running = s
    /\ proc = "none"
    /\ Launches(s)
    /\ o = "launchfail" => ~creates
    /\ Produces(s, config) = {} => ~creates
    /\ proc' = o
    /\ outcome' = [outcome EXCEPT ![s] = o]
    /\ fs' = IF creates THEN fs \cup Produces(s, config) ELSE fs
    /\ UNCHANGED <<config, pc, running, started, returned, build_artifacts,
                   reports, summary_doc, summary_written, registered, result, runs>>
    /\ UNCHANGED perfvars
    /\ UNCHANGED toolvars
    /\ UNCHANGED harnessvars

\* subprocess.run of the running stage ends with outcome o; a process that
\* was launched may have left its output file behind (creates).
subprocess_run(s, o, creates) ==
    /\ running = s
    /\ proc = "none"
    /\ Launches(s)
    /\ o = "launchfail" => ~creates
    /\ Produces(s, config) = {} => ~creates
    /\ proc' = o
    /\ outcome' = [outcome EXCEPT ![s] = o]
    /\ fs' = IF creates THEN fs \cup Produces(s, config) ELSE fs
    /\ UNCHANGED <<config, pc, running, started, returned, build_artifacts,
                   reports, summary_doc, summary_written, registered, result, runs>>
    /\ UNCHANGED perfvars
    /\ UNCHANGED toolvars
    /\ UNCHANGED harnessvars

\* Something outside the pipeline removes an artifact file.
RemoveFile(p) ==
    /\ p \in fs
    /\ fs' = fs \ {p}
    /\ UNCHANGED <<config, pc, running, proc, started, returned, outcome,
                   build_artifacts, reports, summary_doc, summary_written,
                   registered, result, runs>>
    /\ UNCHANGED perfvars
    /\ UNCHANGED toolvars
    /\ UNCHANGED harnessvars

----------------------------------------------------------------------------
(* Stage bodies; each ends with the orchestrator's decision on its result *)

\* env: "ok", a required tool is not on PATH, or mkdir raises OSError.
_setup_environment(env) ==
    /\ running = "_setup_environment"
    /\ Decide("_setup_environment",
              CASE env = "toolmissing" -> "False"
                [] env = "oserror"     -> "raised"
                [] OTHER               -> "True")
    /\ UNCHANGED <<config, started, outcome, build_artifacts, fs, reports,
                   summary_doc, summary_written, registered, runs>>
    /\ UNCHANGED perfvars
    /\ UNCHANGED toolvars
    /\ UNCHANGED harnessvars

\* BuildRegisters without the binary_path.exists() check.
BuildRegisters_no_exists ==
    proc = "exit0"

BuildRegisters ==
    /\ proc = "exit0"
    /\ BinaryPath(config) \in fs

\* _run_build that returns the exit status of the build and does not fail
\* when the executable is missing.
_run_build_returns_exit_status ==
    /\ running = "_run_build"
    /\ proc # "none"
    /\ build_artifacts' =
          IF BuildRegisters
          THEN [build_artifacts EXCEPT !["binary"] = BinaryPath(config)]
          ELSE build_artifacts
    /\ registered' = IF BuildRegisters THEN registered \cup {"binary"}
                     ELSE registered
    /\ Decide("_run_build", IF proc = "exit0" THEN "True" ELSE "False")
    /\ UNCHANGED <<config, started, outcome, fs, reports, summary_doc,
                   summary_written, runs>>
    /\ UNCHANGED perfvars
    /\ UNCHANGED toolvars
    /\ UNCHANGED harnessvars

_run_build ==
    /\ running = "_run_build"
    /\ proc # "none"
    /\ build_artifacts' =
          IF BuildRegisters
          THEN [build_artifacts EXCEPT !["binary"] = BinaryPath(config)]
          ELSE build_artifacts
    /\ registered' = IF BuildRegisters THEN registered \cup {"binary"}
                     ELSE registered
    /\ Decide("_run_build", IF BuildRegisters THEN "True" ELSE "False")
    /\ UNCHANGED <<config, started, outcome, fs, reports, summary_doc,
                   summary_written, runs>>
    /\ UNCHANGED perfvars
    /\ UNCHANGED toolvars
    /\ UNCHANGED harnessvars

\* The report file is written once subprocess.run has returned a completed
\* process; open() may raise (write_ok = FALSE).
Completed == proc \in {"exit0", "nonzero"}

_run_unit_tests(write_ok) ==
    /\ running = "_run_unit_tests"
    /\ proc # "none"
    /\ Completed \/ write_ok
    /\ reports' = IF Completed /\ write_ok
                  THEN reports \cup {ReportFile("_run_unit_tests")}
                  ELSE reports
    /\ Decide("_run_unit_tests",
              IF Completed /\ write_ok /\ proc = "exit0"
              THEN "True" ELSE "False")
    /\ UNCHANGED <<config, started, outcome, build_artifacts, fs,
                   summary_doc, summary_written, registered, runs>>
    /\ UNCHANGED perfvars
    /\ UNCHANGED toolvars
    /\ UNCHANGED harnessvars

_run_integration_tests(write_ok) ==
    /\ running = "_run_integration_tests"
    /\ proc # "none" \/ ~Launches("_run_integration_tests")
    /\ Completed \/ write_ok
    /\ reports' = IF Completed /\ write_ok
                  THEN reports \cup {ReportFile("_run_integration_tests")}
                  ELSE reports
    /\ Decide("_run_integration_tests",
              IF Completed /\ write_ok THEN "True" ELSE "False")
    /\ UNCHANGED <<config, started, outcome, build_artifacts, fs,
                   summary_doc, summary_written, registered, runs>>
    /\ UNCHANGED perfvars
    /\ UNCHANGED toolvars
    /\ UNCHANGED harnessvars

_run_security_scan(write_ok) ==
    /\ running = "_run_security_scan"
    /\ proc # "none"
    /\ Completed \/ write_ok
    /\ reports' = IF Completed /\ write_ok
                  THEN reports \cup {ReportFile("_run_security_scan")}
                  ELSE reports
    /\ Decide("_run_security_scan",
              IF Completed /\ write_ok /\ proc = "exit0"
              THEN "True" ELSE "False")
    /\ UNCHANGED <<config, started, outcome, build_artifacts, fs,
                   summary_doc, summary_written, registered, runs>>
    /\ UNCHANGED perfvars
    /\ UNCHANGED toolvars
    /\ UNCHANGED harnessvars

_run_performance_tests(write_ok) ==
    /\ running = "_run_performance_tests"
    /\ proc # "none" \/ ~Launches("_run_performance_tests")
    /\ Completed \/ write_ok
    /\ reports' = IF Completed /\ write_ok
                  THEN reports \cup {ReportFile("_run_performance_tests")}
                  ELSE reports
    /\ Decide("_run_performance_tests",
              IF Completed /\ write_ok /\ proc = "exit0"
              THEN "True" ELSE "False")
    /\ UNCHANGED <<config, started, outcome, build_artifacts, fs,
                   summary_doc, summary_written, registered, runs>>
    /\ UNCHANGED perfvars
    /\ UNCHANGED toolvars
    /\ UNCHANGED harnessvars

_run_static_analysis ==
    /\ running = "_run_static_analysis"
    /\ Decide("_run_static_analysis", "True")
    /\ UNCHANGED <<config, started, outcome, build_artifacts, fs, reports,
                   summary_doc, summary_written, registered, runs>>
    /\ UNCHANGED perfvars
    /\ UNCHANGED toolvars
    /\ UNCHANGED harnessvars

\* PackagingRegisters without the package_path.exists() check.
PackagingRegisters_no_exists ==
    proc = "exit0"

PackagingRegisters ==
    /\ proc = "exit0"
    /\ PackagePath(config) \in fs

\* _run_packaging that rebinds the registry to a new dict holding only the
\* package instead of adding the package to it.
_run_packaging_rebinds ==
    /\ running = "_run_packaging"
    /\ proc # "none"
    /\ build_artifacts' =
          IF PackagingRegisters
          THEN [EmptyRegistry EXCEPT !["package"] = PackagePath(config)]
          ELSE build_artifacts
    /\ registered' = IF PackagingRegisters THEN registered \cup {"package"}
                     ELSE registered
    /\ Decide("_run_packaging", IF proc = "exit0" THEN "True" ELSE "False")
    /\ UNCHANGED <<config, started, outcome, fs, reports, summary_doc,
                   summary_written, runs>>
    /\ UNCHANGED perfvars
    /\ UNCHANGED toolvars
    /\ UNCHANGED harnessvars

_run_packaging ==
    /\ running = "_run_packaging"
    /\ proc # "none"
    /\ build_artifacts' =
          IF PackagingRegisters
          THEN [build_artifacts EXCEPT !["package"] = PackagePath(config)]
          ELSE build_artifacts
    /\ registered' = IF PackagingRegisters THEN registered \cup {"package"}
                     ELSE registered
    /\ Decide("_run_packaging", IF proc = "exit0" THEN "True" ELSE "False")
    /\ UNCHANGED <<config, started, outcome, fs, reports, summary_doc,
                   summary_written, runs>>
    /\ UNCHANGED perfvars
    /\ UNCHANGED toolvars
    /\ UNCHANGED harnessvars

required_artifacts(cfg) ==
    IF cfg.enable_packaging THEN {"binary", "package"} ELSE {"binary"}

\* ArtifactsVerified without the path.exists() check.
ArtifactsVerified_no_exists ==
    \A a \in required_artifacts(config) : build_artifacts[a] # None

\* The loop of _final_verification: every required name is registered and
\* the file at its registered path exists.
ArtifactsVerified ==
    \A a \in required_artifacts(config) :
        /\ build_artifacts[a] # None
        /\ build_artifacts[a] \in fs

\* DumpArtifacts that writes only the names Final verification requires.
DumpArtifacts_required_only(reg) ==
    { <<n, reg[n]>> : n \in { m \in required_artifacts(config) : reg[m] # None } }

\* json.dump writes the registry as a JSON object: one member per name
\* that is present.
DumpArtifacts(reg) ==
    { <<n, reg[n]>> : n \in { m \in ArtifactNames : reg[m] # None } }

_generate_build_summary(cfg) ==
    [build_info |-> [platform |-> cfg.platform,
                     configuration |-> cfg.config,
                     success |-> TRUE],
     artifacts |-> DumpArtifacts(build_artifacts),
     reports |-> { ReportFile(s) : s \in
                     { "_run_unit_tests", "_run_integration_tests",
                       "_run_security_scan", "_run_performance_tests" } }]

\* write_ok = FALSE: opening build_summary.json raises.
_final_verification(write_ok) ==
    /\ running = "_final_verification"
    /\ ArtifactsVerified \/ write_ok
    /\ IF ArtifactsVerified /\ write_ok
       THEN /\ summary_doc' = _generate_build_summary(config)
            /\ summary_written' = TRUE
       ELSE UNCHANGED <<summary_doc, summary_written>>
    /\ Decide("_final_verification",
              IF ~ArtifactsVerified THEN "False"
              ELSE IF write_ok THEN "True" ELSE "raised")
    /\ UNCHANGED <<config, started, outcome, build_artifacts, fs, reports,
                   registered, runs>>
    /\ UNCHANGED perfvars
    /\ UNCHANGED toolvars
    /\ UNCHANGED harnessvars

----------------------------------------------------------------------------
(* scripts/performance_tests.py: PerformanceMonitor and its sampler thread  *)

MaxMonitors == 2

MaxCalls == 3

MaxSamples == 2

Monitors == 1..MaxMonitors

ThreadIds == 1..MaxCalls

\* memory_info().rss and cpu_percent() of one observation; cpu_percent()
\* is 0 on the first call on a Process object.
Sample ==
    { [memory_rss |-> 1, cpu_percent |-> 0],
      [memory_rss |-> 2, cpu_percent |-> 5] }

Unborn == [mon |-> 0, pc |-> "unborn"]

pipevars == <<config, pc, running, proc, started, returned, outcome,
              build_artifacts, fs, reports, summary_doc, summary_written,
              registered, result, runs>>

RECURSIVE SeqMax(_)
SeqMax(s) ==
    IF Len(s) = 1 THEN s[1]
    ELSE IF s[1] >= SeqMax(Tail(s)) THEN s[1] ELSE SeqMax(Tail(s))

RECURSIVE SeqSum(_)
SeqSum(s) == IF s = <<>> THEN 0 ELSE s[1] + SeqSum(Tail(s))

\* max(): ValueError on an empty sequence.
PyMax(s) ==
    IF s = <<>> THEN [raised |-> TRUE, v |-> 0]
    ELSE [raised |-> FALSE, v |-> SeqMax(s)]

\* statistics.mean(): StatisticsError on an empty sequence; the mean is
\* kept as the exact fraction <<sum, count>>.
PyMean(s) ==
    IF s = <<>> THEN [raised |-> TRUE, v |-> <<0, 0>>]
    ELSE [raised |-> FALSE, v |-> <<SeqSum(s), Len(s)>>]

\* [m['memory_rss'] for m in self.metrics]
MemoryRss(ms) == [i \in 1..Len(ms) |-> ms[i].memory_rss]

\* [m['cpu_percent'] for m in self.metrics if m['cpu_percent'] > 0]
IsPositiveCpu(m) == m.cpu_percent > 0

CpuValuesOf(ms) ==
    [i \in 1..Len(SelectSeq(ms, IsPositiveCpu)) |->
        SelectSeq(ms, IsPositiveCpu)[i].cpu_percent]

\* `max(cpu_values) if cpu_values else 0` without the guard.
CpuPeak_unguarded(cpu_values) == PyMax(cpu_values)

CpuPeak(cpu_values) ==
    IF cpu_values # <<>> THEN PyMax(cpu_values)
    ELSE [raised |-> FALSE, v |-> 0]

CpuAverage(cpu_values) ==
    IF cpu_values # <<>> THEN PyMean(cpu_values)
    ELSE [raised |-> FALSE, v |-> <<0, 1>>]

MemoryPeak(memory_rss) ==
    IF memory_rss # <<>> THEN PyMax(memory_rss)
    ELSE [raised |-> FALSE, v |-> 0]

MemoryAverage(memory_rss) ==
    IF memory_rss # <<>> THEN PyMean(memory_rss)
    ELSE [raised |-> FALSE, v |-> <<0, 1>>]

\* What a stop_monitoring call hands back: an exception or a dict.
EmptyDict == [raised |-> FALSE, value |-> <<>>]

\* The dict literal of stop_monitoring; count is len(self.metrics) at the
\* time the literal is evaluated.
Aggregate(memory_rss, cpu_values, count) ==
    IF \/ MemoryPeak(memory_rss).raised
       \/ MemoryAverage(memory_rss).raised
       \/ CpuPeak(cpu_values).raised
       \/ CpuAverage(cpu_values).raised
    THEN [raised |-> TRUE, value |-> <<>>]
    ELSE [raised |-> FALSE,
          value |-> [memory_peak    |-> MemoryPeak(memory_rss).v,
                     memory_average |-> MemoryAverage(memory_rss).v,
                     cpu_peak       |-> CpuPeak(cpu_values).v,
                     cpu_average    |-> CpuAverage(cpu_values).v,
                     sample_count   |-> count]]

\* PerformanceMonitor(): nothing is monitored, the buffer is empty.
InitPerformance ==
    /\ monitoring = [m \in Monitors |-> FALSE]
    /\ metrics = [m \in Monitors |-> <<>>]
    /\ threads = [t \in ThreadIds |-> Unborn]
    /\ child = [state |-> "none", of |-> 1]
    /\ main = [pc |-> "idle", mon |-> 1, memory_rss |-> <<>>,
               cpu_values |-> <<>>, iter |-> 0, iterations |-> 0,
               calls |-> 0]
    /\ rets = <<>>

UnbornThreads == { t \in ThreadIds : threads[t].pc = "unborn" }

\* start_monitoring on monitor m: flag, fresh buffer, one more sampler thread.
StartMonitoring(m, next_pc) ==
    /\ UnbornThreads # {}
    /\ monitoring' = [monitoring EXCEPT ![m] = TRUE]
    /\ metrics' = [metrics EXCEPT ![m] = <<>>]
    /\ threads' = [threads EXCEPT
                     ![CHOOSE t \in UnbornThreads :
                          \A u \in UnbornThreads : t <= u] =
                        [mon |-> m, pc |-> "test"]]
    /\ main' = [main EXCEPT !.pc = next_pc, !.calls = @ + 1]

\* A caller that holds one monitor and calls its two methods in any order.
start_monitoring ==
    /\ main.pc = "idle"
    /\ main.calls < MaxCalls
    /\ StartMonitoring(main.mon, "idle")
    /\ UNCHANGED <<child, rets>>
    /\ UNCHANGED pipevars
    /\ UNCHANGED toolvars
    /\ UNCHANGED harnessvars

\* Where stop_monitoring returns to.
AfterStop == IF main.pc = "idle" \/ main.iter = 0 THEN "idle" ELSE "t_after"

\* line 91: self.monitoring = False
stop_monitoring_91 ==
    /\ \/ main.pc = "idle" /\ main.calls < MaxCalls
       \/ main.pc = "t_stop"
    /\ monitoring' = [monitoring EXCEPT ![main.mon] = FALSE]
    /\ main' = [main EXCEPT !.pc = "stop_93", !.calls = @ + 1]
    /\ UNCHANGED <<metrics, threads, child, rets>>
    /\ UNCHANGED pipevars
    /\ UNCHANGED toolvars
    /\ UNCHANGED harnessvars

\* stop_monitoring_93 without the early return for an empty buffer.
stop_monitoring_93_no_early_return ==
    /\ main.pc = "stop_93"
    /\ rets' = rets
    /\ main' = [main EXCEPT !.pc = "stop_96"]
    /\ UNCHANGED <<monitoring, metrics, threads, child>>
    /\ UNCHANGED pipevars
    /\ UNCHANGED toolvars
    /\ UNCHANGED harnessvars

\* lines 93-94: if not self.metrics: return {}
stop_monitoring_93 ==
    /\ main.pc = "stop_93"
    /\ IF metrics[main.mon] = <<>>
       THEN /\ rets' = Append(rets, EmptyDict)
            /\ main' = [main EXCEPT !.pc = AfterStop]
       ELSE /\ rets' = rets
            /\ main' = [main EXCEPT !.pc = "stop_96"]
    /\ UNCHANGED <<monitoring, metrics, threads, child>>
    /\ UNCHANGED pipevars
    /\ UNCHANGED toolvars
    /\ UNCHANGED harnessvars

\* stop_monitoring_96 that first joins the sampler threads of the monitor.
stop_monitoring_96_joins ==
    /\ main.pc = "stop_96"
    /\ \A t \in ThreadIds :
          threads[t].mon = main.mon => threads[t].pc = "exited"
    /\ main' = [main EXCEPT !.pc = "stop_97",
                            !.memory_rss = MemoryRss(metrics[main.mon])]
    /\ UNCHANGED <<monitoring, metrics, threads, child, rets>>
    /\ UNCHANGED pipevars
    /\ UNCHANGED toolvars
    /\ UNCHANGED harnessvars

\* line 96: memory_rss = [...]
stop_monitoring_96 ==
    /\ main.pc = "stop_96"
    /\ main' = [main EXCEPT !.pc = "stop_97",
                            !.memory_rss = MemoryRss(metrics[main.mon])]
    /\ UNCHANGED <<monitoring, metrics, threads, child, rets>>
    /\ UNCHANGED pipevars
    /\ UNCHANGED toolvars
    /\ UNCHANGED harnessvars

\* line 97: cpu_values = [...]
stop_monitoring_97 ==
    /\ main.pc = "stop_97"
    /\ main' = [main EXCEPT !.pc = "stop_99",
                            !.cpu_values = CpuValuesOf(metrics[main.mon])]
    /\ UNCHANGED <<monitoring, metrics, threads, child, rets>>
    /\ UNCHANGED pipevars
    /\ UNCHANGED toolvars
    /\ UNCHANGED harnessvars

\* lines 99-106: return {...}
stop_monitoring_99 ==
    /\ main.pc = "stop_99"
    /\ rets' = Append(rets, Aggregate(main.memory_rss, main.cpu_values,
                                       Len(metrics[main.mon])))
    /\ main' = [main EXCEPT !.pc = AfterStop, !.memory_rss = <<>>,
                            !.cpu_values = <<>>]
    /\ UNCHANGED <<monitoring, metrics, threads, child>>
    /\ UNCHANGED pipevars
    /\ UNCHANGED toolvars
    /\ UNCHANGED harnessvars

\* monitor_loop_test for a loop that does not read the flag (while True).
monitor_loop_test_while_true(t) ==
    /\ threads[t].pc = "test"
    /\ threads' = [threads EXCEPT ![t].pc = "body"]
    /\ UNCHANGED <<monitoring, metrics, child, main, rets>>
    /\ UNCHANGED pipevars
    /\ UNCHANGED toolvars
    /\ UNCHANGED harnessvars

\* monitor_loop, line 55: while self.monitoring
monitor_loop_test(t) ==
    /\ threads[t].pc = "test"
    /\ threads' = [threads EXCEPT ![t].pc =
                     IF monitoring[threads[t].mon] THEN "body" ELSE "exited"]
    /\ UNCHANGED <<monitoring, metrics, child, main, rets>>
    /\ UNCHANGED pipevars
    /\ UNCHANGED toolvars
    /\ UNCHANGED harnessvars

\* The process can be looked up and queried.
Queryable(t) == child.state = "running" /\ child.of = threads[t].mon

\* monitor_loop_body without the except clause: a failed lookup ends the
\* thread.
monitor_loop_body_no_except(t, m, granted) ==
    /\ threads[t].pc = "body"
    /\ granted => Queryable(t) /\ Len(metrics[threads[t].mon]) < MaxSamples
    /\ metrics' = IF granted
                  THEN [metrics EXCEPT ![threads[t].mon] = Append(@, m)]
                  ELSE metrics
    /\ threads' = [threads EXCEPT ![t].pc =
                     IF granted THEN "sleep" ELSE "exited"]
    /\ UNCHANGED <<monitoring, child, main, rets>>
    /\ UNCHANGED pipevars
    /\ UNCHANGED toolvars
    /\ UNCHANGED harnessvars

\* monitor_loop, lines 56-82: one sampling attempt. The sample is appended
\* when the process is found and can be queried (granted); otherwise
\* NoSuchProcess / AccessDenied / no process of that name: nothing appended.
monitor_loop_body(t, m, granted) ==
    /\ threads[t].pc = "body"
    /\ granted => Queryable(t) /\ Len(metrics[threads[t].mon]) < MaxSamples
    /\ metrics' = IF granted
                  THEN [metrics EXCEPT ![threads[t].mon] = Append(@, m)]
                  ELSE metrics
    /\ threads' = [threads EXCEPT ![t].pc = "sleep"]
    /\ UNCHANGED <<monitoring, child, main, rets>>
    /\ UNCHANGED pipevars
    /\ UNCHANGED toolvars
    /\ UNCHANGED harnessvars

\* monitor_loop, line 84: time.sleep(0.1) is over.
monitor_loop_sleep(t) ==
    /\ threads[t].pc = "sleep"
    /\ threads' = [threads EXCEPT ![t].pc = "test"]
    /\ UNCHANGED <<monitoring, metrics, child, main, rets>>
    /\ UNCHANGED pipevars
    /\ UNCHANGED toolvars
    /\ UNCHANGED harnessvars

\* The monitored process comes into being or ends outside the caller's
\* control.
ChildStarts ==
    /\ child.state = "none"
    /\ main.iter = 0
    /\ main.pc # "t_loop"
    /\ child' = [child EXCEPT !.state = "running"]
    /\ UNCHANGED <<monitoring, metrics, threads, main, rets>>
    /\ UNCHANGED pipevars
    /\ UNCHANGED toolvars
    /\ UNCHANGED harnessvars

ChildExits ==
    /\ child.state = "running"
    /\ child' = [child EXCEPT !.state = "exited"]
    /\ UNCHANGED <<monitoring, metrics, threads, main, rets>>
    /\ UNCHANGED pipevars
    /\ UNCHANGED toolvars
    /\ UNCHANGED harnessvars

NextMonitor ==
    \/ start_monitoring
    \/ stop_monitoring_91
    \/ stop_monitoring_93
    \/ stop_monitoring_96
    \/ stop_monitoring_97
    \/ stop_monitoring_99
    \/ \E t \in ThreadIds : monitor_loop_test(t)
    \/ \E t \in ThreadIds, m \in Sample, granted \in BOOLEAN :
          monitor_loop_body(t, m, granted)
    \/ \E t \in ThreadIds : monitor_loop_sleep(t)
    \/ ChildStarts
    \/ ChildExits

----------------------------------------------------------------------------
(* PerformanceTester.test_startup_time *)

\* range(min(10, self.iterations))
StartupRounds(iterations) == IF iterations < 10 THEN iterations ELSE 10

\* line 169-170: next round of the loop with a new PerformanceMonitor, or
\* the loop is over.
test_startup_time_loop ==
    /\ main.pc = "t_loop"
    /\ IF main.iter < StartupRounds(main.iterations)
       THEN main' = [main EXCEPT !.pc = "t_popen", !.iter = @ + 1,
                                 !.mon = main.iter + 1]
       ELSE main' = [main EXCEPT !.pc = "t_return"]
    /\ UNCHANGED <<monitoring, metrics, threads, child, rets>>
    /\ UNCHANGED pipevars
    /\ UNCHANGED toolvars
    /\ UNCHANGED harnessvars

\* lines 175-179: subprocess.Popen starts the child, or raises OSError,
\* which leaves test_startup_time.
test_startup_time_Popen(launched) ==
    /\ main.pc = "t_popen"
    /\ IF launched
       THEN /\ child' = [state |-> "running", of |-> main.mon]
            /\ main' = [main EXCEPT !.pc = "t_start"]
       ELSE /\ child' = child
            /\ main' = [main EXCEPT !.pc = "t_raised"]
    /\ UNCHANGED <<monitoring, metrics, threads, rets>>
    /\ UNCHANGED pipevars
    /\ UNCHANGED toolvars
    /\ UNCHANGED harnessvars

\* line 181: monitor.start_monitoring(proc.pid)
test_startup_time_start ==
    /\ main.pc = "t_start"
    /\ StartMonitoring(main.mon, "t_communicate")
    /\ UNCHANGED <<child, rets>>
    /\ UNCHANGED pipevars
    /\ UNCHANGED toolvars
    /\ UNCHANGED harnessvars

\* line 184: proc.communicate(timeout=30) returns once the child has exited.
communicate_returns ==
    /\ main.pc = "t_communicate"
    /\ child.state = "exited"
    /\ main' = [main EXCEPT !.pc = "t_stop"]
    /\ UNCHANGED <<monitoring, metrics, threads, child, rets>>
    /\ UNCHANGED pipevars
    /\ UNCHANGED toolvars
    /\ UNCHANGED harnessvars

\* line 184: the 30 seconds pass with the child still running;
\* Popen.communicate raises TimeoutExpired and leaves the child as it is.
\* Nothing in test_startup_time catches the exception.
communicate_timeout ==
    /\ main.pc = "t_communicate"
    /\ child.state = "running"
    /\ main' = [main EXCEPT !.pc = "t_timeout"]
    /\ UNCHANGED <<monitoring, metrics, threads, child, rets>>
    /\ UNCHANGED pipevars
    /\ UNCHANGED toolvars
    /\ UNCHANGED harnessvars

\* lines 189-192: the round's result is recorded.
test_startup_time_after ==
    /\ main.pc = "t_after"
    /\ main' = [main EXCEPT !.pc = "t_loop"]
    /\ UNCHANGED <<monitoring, metrics, threads, child, rets>>
    /\ UNCHANGED pipevars
    /\ UNCHANGED toolvars
    /\ UNCHANGED harnessvars

NextStartup ==
    \/ test_startup_time_loop
    \/ \E launched \in BOOLEAN : test_startup_time_Popen(launched)
    \/ test_startup_time_start
    \/ communicate_returns
    \/ communicate_timeout
    \/ test_startup_time_after
    \/ stop_monitoring_91
    \/ stop_monitoring_93
    \/ stop_monitoring_96
    \/ stop_monitoring_97
    \/ stop_monitoring_99
    \/ \E t \in ThreadIds : monitor_loop_test(t)
    \/ \E t \in ThreadIds, m \in Sample, granted \in BOOLEAN :
          monitor_loop_body(t, m, granted)
    \/ \E t \in ThreadIds : monitor_loop_sleep(t)
    \/ ChildExits

----------------------------------------------------------------------------
(* scripts/security_scan.py: SecurityScanner *)

\* Findings one scan step appends at most.
MaxHits == 2

ScanOrder ==
    << "scan_source_code", "scan_credential_leaks", "scan_dependencies",
       "scan_configurations", "scan_binary_security" >>

ScanSteps == { ScanOrder[i] : i \in 1..Len(ScanOrder) }

\* FindingsOf with the source-code findings given severity high.
FindingsOf_source_high(step) ==
    CASE step = "scan_source_code" ->
           { [type |-> "code_vulnerability", severity |-> "high"] }
      [] step = "scan_credential_leaks" ->
           { [type |-> "credential_leak", severity |-> "high"] }
      [] step = "scan_dependencies" ->
           { [type |-> "dependency_vulnerability", severity |-> "medium"] }
      [] step = "scan_configurations" ->
           { [type |-> "configuration_issue", severity |-> "low"] }
      [] step = "scan_binary_security" ->
           { [type |-> "binary_security", severity |-> "medium"],
             [type |-> "binary_security", severity |-> "low"] }

\* The 'type' and 'severity' a scan step gives to what it appends.
FindingsOf(step) ==
    CASE step = "scan_source_code" ->
           { [type |-> "code_vulnerability", severity |-> "medium"] }
      [] step = "scan_credential_leaks" ->
           { [type |-> "credential_leak", severity |-> "high"] }
      [] step = "scan_dependencies" ->
           { [type |-> "dependency_vulnerability", severity |-> "medium"] }
      [] step = "scan_configurations" ->
           { [type |-> "configuration_issue", severity |-> "low"] }
      [] step = "scan_binary_security" ->
           { [type |-> "binary_security", severity |-> "medium"],
             [type |-> "binary_security", severity |-> "low"] }

\* What one scan step may append, depending on the files it reads.
Hits(step) == UNION { [1..n -> FindingsOf(step)] : n \in 0..MaxHits }

\* SecurityScanner(project_root): self.findings = []
NewScanner ==
    [pc |-> "idle", findings |-> <<>>, ret |-> "none", report |-> None]

\* The step run_full_scan calls after step.
AfterScan(step) ==
    IF step = ScanOrder[Len(ScanOrder)] THEN "_generate_report"
    ELSE ScanOrder[(CHOOSE i \in 1..Len(ScanOrder) : ScanOrder[i] = step) + 1]

run_full_scan ==
    /\ scanner.pc = "idle"
    /\ scanner' = [scanner EXCEPT !.pc = ScanOrder[1]]
    /\ UNCHANGED <<builder, tester>>
    /\ UNCHANGED <<pipevars, perfvars>>
    /\ UNCHANGED harnessvars

\* scan that rebinds self.findings to what the step found.
scan_rebinds(step, hits) ==
    /\ scanner.pc = step
    /\ scanner' = [scanner EXCEPT !.pc = AfterScan(step),
                                  !.findings = hits]
    /\ UNCHANGED <<builder, tester>>
    /\ UNCHANGED <<pipevars, perfvars>>
    /\ UNCHANGED harnessvars

\* scan_source_code .. scan_binary_security: self.findings.append(...)
scan(step, hits) ==
    /\ scanner.pc = step
    /\ scanner' = [scanner EXCEPT !.pc = AfterScan(step),
                                  !.findings = @ \o hits]
    /\ UNCHANGED <<builder, tester>>
    /\ UNCHANGED <<pipevars, perfvars>>
    /\ UNCHANGED harnessvars

\* by_severity[finding['severity']].append(finding)
BySeverity(findings, severity) ==
    SelectSeq(findings, LAMBDA f : f.severity = severity)

\* The return value of _generate_report when it reaches its last line.
Verdict_no_medium(findings) ==
    IF Len(BySeverity(findings, "high")) = 0
         /\ Len(BySeverity(findings, "medium")) = 0
    THEN "True" ELSE "False"

Verdict(findings) ==
    IF Len(BySeverity(findings, "high")) = 0 THEN "True" ELSE "False"

\* The content of security_report.json.
ReportData(findings) ==
    [total_findings |-> Len(findings),
     summary |-> [sev \in {"high", "medium", "low"} |->
                     Len(BySeverity(findings, sev))],
     findings |-> findings]

\* _generate_report: True without a report when there is no finding;
\* otherwise the report is written (open/json.dump may raise, and the
\* exception leaves run_full_scan) and the verdict is returned.
_generate_report(write_ok) ==
    /\ scanner.pc = "_generate_report"
    /\ scanner.findings = <<>> => write_ok
    /\ scanner' =
          IF Len(scanner.findings) = 0
          THEN [scanner EXCEPT !.pc = "done", !.ret = "True"]
          ELSE IF write_ok
          THEN [scanner EXCEPT !.pc = "done",
                               !.report = ReportData(scanner.findings),
                               !.ret = Verdict(scanner.findings)]
          ELSE [scanner EXCEPT !.pc = "done", !.ret = "raised"]
    /\ UNCHANGED <<builder, tester>>
    /\ UNCHANGED <<pipevars, perfvars>>
    /\ UNCHANGED harnessvars

NextScan ==
    \/ run_full_scan
    \/ \E step \in ScanSteps : \E hits \in Hits(step) : scan(step, hits)
    \/ \E write_ok \in BOOLEAN : _generate_report(write_ok)

----------------------------------------------------------------------------
(* scripts/package.py: PackageBuilder.create_package *)

\* Documentation files of the project root and their names in docs/.
doc_files ==
    { <<"README.md", "docs/README.md">>,
      <<"README-WINDOWS.md", "docs/WINDOWS-SETUP.md">>,
      <<"CLAUDE.md", "docs/ARCHITECTURE.md">>,
      <<"LICENSE", "docs/LICENSE">> }

DocSources == { d[1] : d \in doc_files }

\* What create_package finds on disk: the built executable, the built
\* plugin, scripts/demo-session.mcp and the documentation files.
PackageEnv ==
    [exe : BOOLEAN, plugin : BOOLEAN, demo : BOOLEAN, docs : SUBSET DocSources]

plugin_suffix(platform) == IF platform = "x64" THEN "dp64" ELSE "dp32"

\* PackageBuilder(platform, config, output_dir); package_dir holds the
\* relative paths of the files in the package directory, manifest and
\* archive stand for manifest.json's "files" list and the members of the
\* ZIP file, None while the file does not exist.
NewBuilder(platform, env) ==
    [pc |-> "idle", platform |-> platform, env |-> env, package_dir |-> {},
     manifest |-> None, archive |-> None, ret |-> "none"]

\* lines 73-77: the package directory is made.
create_package ==
    /\ builder.pc = "idle"
    /\ builder' = [builder EXCEPT !.pc = "_copy_binaries"]
    /\ UNCHANGED <<scanner, tester>>
    /\ UNCHANGED <<pipevars, perfvars>>
    /\ UNCHANGED harnessvars

\* lines 110-137; FileNotFoundError when the executable is missing, which
\* create_package turns into False.
_copy_binaries ==
    /\ builder.pc = "_copy_binaries"
    /\ builder' =
          IF builder.env.exe
          THEN [builder EXCEPT
                  !.pc = "_copy_configs",
                  !.package_dir = @ \cup {"bin/mcp-debugger.exe"} \cup
                     (IF builder.env.plugin
                      THEN {"plugins/mcp_debugger." \o
                               plugin_suffix(builder.platform)}
                      ELSE {})]
          ELSE [builder EXCEPT !.pc = "done", !.ret = "False"]
    /\ UNCHANGED <<scanner, tester>>
    /\ UNCHANGED <<pipevars, perfvars>>
    /\ UNCHANGED harnessvars

\* lines 165-208: config/config.json is copied or written.
_copy_configs ==
    /\ builder.pc = "_copy_configs"
    /\ builder' = [builder EXCEPT !.pc = "_copy_documentation",
                                  !.package_dir = @ \cup {"config/config.json"}]
    /\ UNCHANGED <<scanner, tester>>
    /\ UNCHANGED <<pipevars, perfvars>>
    /\ UNCHANGED harnessvars

\* lines 210-241
_copy_documentation ==
    /\ builder.pc = "_copy_documentation"
    /\ builder' =
          [builder EXCEPT
             !.pc = "_create_install_scripts",
             !.package_dir = @ \cup
                { d[2] : d \in { e \in doc_files : e[1] \in builder.env.docs } }
                \cup (IF builder.env.demo
                      THEN {"docs/examples/demo-session.mcp"} ELSE {})]
    /\ UNCHANGED <<scanner, tester>>
    /\ UNCHANGED <<pipevars, perfvars>>
    /\ UNCHANGED harnessvars

\* lines 243-290: the f-string of line 248 reads the local plugin_suffix
\* (line 267), which is assigned only at line 286: UnboundLocalError.
\* Nothing is written; create_package logs the error and returns False
\* (lines 106-108), so _create_plugin_package, _create_manifests,
\* _create_zip_archive and _verify_package are never called.
_create_install_scripts ==
    /\ builder.pc = "_create_install_scripts"
    /\ builder' = [builder EXCEPT !.pc = "done", !.ret = "False"]
    /\ UNCHANGED <<scanner, tester>>
    /\ UNCHANGED <<pipevars, perfvars>>
    /\ UNCHANGED harnessvars

NextPackage ==
    \/ create_package
    \/ _copy_binaries
    \/ _copy_configs
    \/ _copy_documentation
    \/ _create_install_scripts

----------------------------------------------------------------------------
(* scripts/performance_tests.py: PerformanceTester.run_all_tests *)

tests ==
    << "test_startup_time", "test_sexpr_performance",
       "test_command_performance", "test_memory_stability",
       "test_concurrent_operations", "test_memory_leaks",
       "test_large_expressions", "test_stress_scenarios" >>

\* How a sub-test can end: with a PerformanceMetrics record, with None, or
\* with an exception (a timeout or a failure to launch the binary).
TestOutcomes(test) ==
    CASE test \in {"test_startup_time", "test_sexpr_performance",
                   "test_command_performance", "test_large_expressions"} ->
           {"metrics", "None", "raised"}
      [] test \in {"test_memory_stability", "test_memory_leaks"} ->
           {"metrics", "raised"}
      [] test = "test_concurrent_operations" -> {"metrics", "None"}
      [] test = "test_stress_scenarios" -> {"metrics"}

\* PerformanceTester(binary_path, iterations): self.results = []
NewTester ==
    [pc |-> "idle", i |-> 1, results |-> <<>>, outcomes |-> <<>>,
     report |-> None, ret |-> "none"]

run_all_tests ==
    /\ tester.pc = "idle"
    /\ tester' = [tester EXCEPT !.pc = "loop"]
    /\ UNCHANGED <<scanner, builder>>
    /\ UNCHANGED <<pipevars, perfvars>>
    /\ UNCHANGED harnessvars

\* test_func without the try/except of run_all_tests: the exception of a
\* sub-test leaves run_all_tests.
test_func_no_except(o) ==
    /\ tester.pc = "loop"
    /\ tester.i <= Len(tests)
    /\ o \in TestOutcomes(tests[tester.i])
    /\ tester' =
          IF o = "raised"
          THEN [tester EXCEPT !.pc = "done", !.ret = "raised",
                              !.outcomes = Append(@, o)]
          ELSE [tester EXCEPT
                  !.i = @ + 1,
                  !.outcomes = Append(@, o),
                  !.results = IF o = "metrics"
                              THEN Append(@, tests[tester.i]) ELSE @]
    /\ UNCHANGED <<scanner, builder>>
    /\ UNCHANGED <<pipevars, perfvars>>
    /\ UNCHANGED harnessvars

\* lines 147-157: one round of the loop; the sub-test ends with o.
test_func(o) ==
    /\ tester.pc = "loop"
    /\ tester.i <= Len(tests)
    /\ o \in TestOutcomes(tests[tester.i])
    /\ tester' = [tester EXCEPT
                    !.i = @ + 1,
                    !.outcomes = Append(@, o),
                    !.results = IF o = "metrics"
                                THEN Append(@, tests[tester.i]) ELSE @]
    /\ UNCHANGED <<scanner, builder>>
    /\ UNCHANGED <<pipevars, perfvars>>
    /\ UNCHANGED harnessvars

\* lines 159-162: self._generate_report() writes performance_report.json
\* (the write can raise, and the exception leaves run_all_tests); then
\* return len(self.results) == len(tests).
run_all_tests_return(write_ok) ==
    /\ tester.pc = "loop"
    /\ tester.i > Len(tests)
    /\ tester' =
          IF write_ok
          THEN [tester EXCEPT
                  !.pc = "done",
                  !.report = [results |-> tester.results],
                  !.ret = IF Len(tester.results) = Len(tests)
                          THEN "True" ELSE "False"]
          ELSE [tester EXCEPT !.pc = "done", !.ret = "raised"]
    /\ UNCHANGED <<scanner, builder>>
    /\ UNCHANGED <<pipevars, perfvars>>
    /\ UNCHANGED harnessvars

NextTester ==
    \/ run_all_tests
    \/ \E o \in {"metrics", "None", "raised"} : test_func(o)
    \/ \E write_ok \in BOOLEAN : run_all_tests_return(write_ok)

----------------------------------------------------------------------------
(* PerformanceTester.test_concurrent_operations *)

\* Largest value of self.iterations drawn for the sub-test.
MaxIterations == 8

num_threads == 4

\* The thread_id arguments of range(num_threads).
WorkerIds == 0..(num_threads - 1)

\* What one subprocess.run(..., timeout=10) call of a worker does: the
\* process exits with 0, exits with another code, or the call raises
\* (TimeoutExpired after 10 s, OSError when the binary cannot be launched).
OpOutcomes == {"exit0", "exitN", "raised"}

\* A worker thread: "unborn" before thread.start(), "loop" inside the for
\* loop of worker_thread, "finished" after results.extend, "died" when an
\* exception left worker_thread.
NewWorker == [pc |-> "unborn", i |-> 0, thread_results |-> <<>>]

NewConc ==
    [pc |-> "idle", iterations |-> 0, operations_per_thread |-> 0,
     workers |-> [t \in WorkerIds |-> NewWorker],
     started |-> 0, joined |-> 0, results |-> <<>>,
     ret |-> [kind |-> "none", operations |-> 0, successes |-> 0]]

\* The entry a worker appends for operation i. The dict of the code holds
\* 'time' and 'success'; thread_id and i identify the operation it is for.
OpResult(thread_id, i, o) ==
    [thread_id |-> thread_id, i |-> i, success |-> (o = "exit0")]

\* Lines 355-359: operations_per_thread = self.iterations // num_threads,
\* results = [].
test_concurrent_operations(iterations) ==
    /\ conc.pc = "idle"
    /\ conc' = [conc EXCEPT
                  !.pc = "start",
                  !.iterations = iterations,
                  !.operations_per_thread = iterations \div num_threads]
    /\ UNCHANGED runner
    /\ UNCHANGED <<pipevars, perfvars, toolvars>>

\* Lines 382-386: one round of the loop that creates and starts the threads.
thread_start ==
    /\ conc.pc = "start"
    /\ conc.started < num_threads
    /\ conc' = [conc EXCEPT
                  !.workers[conc.started].pc = "loop",
                  !.started = @ + 1,
                  !.pc = IF conc.started + 1 = num_threads
                         THEN "join" ELSE "start"]
    /\ UNCHANGED runner
    /\ UNCHANGED <<pipevars, perfvars, toolvars>>

\* Lines 363-377: one round of the worker's for loop. subprocess.run is not
\* inside a try: an exception leaves worker_thread and ends the thread, and
\* what the thread had collected in thread_results goes with it.
worker_thread(t, o) ==
    /\ conc.workers[t].pc = "loop"
    /\ conc.workers[t].i < conc.operations_per_thread
    /\ conc' =
          IF o = "raised"
          THEN [conc EXCEPT !.workers[t].pc = "died"]
          ELSE [conc EXCEPT
                  !.workers[t].thread_results =
                      Append(@, OpResult(t, conc.workers[t].i, o)),
                  !.workers[t].i = @ + 1]
    /\ UNCHANGED runner
    /\ UNCHANGED <<pipevars, perfvars, toolvars>>

\* Line 379: results.extend(thread_results), one step under the
\* interpreter lock, after the worker's loop has run to its end.
results_extend(t) ==
    /\ conc.workers[t].pc = "loop"
    /\ conc.workers[t].i = conc.operations_per_thread
    /\ conc' = [conc EXCEPT
                  !.results = @ \o conc.workers[t].thread_results,
                  !.workers[t].pc = "finished"]
    /\ UNCHANGED runner
    /\ UNCHANGED <<pipevars, perfvars, toolvars>>

\* Lines 389-390: thread.join() on the threads in the order they were
\* started; it returns when the thread has ended, by return or exception.
thread_join ==
    /\ conc.pc = "join"
    /\ conc.joined < num_threads
    /\ conc.workers[conc.joined].pc \in {"finished", "died"}
    /\ conc' = [conc EXCEPT
                  !.joined = @ + 1,
                  !.pc = IF conc.joined + 1 = num_threads
                         THEN "joined" ELSE "join"]
    /\ UNCHANGED runner
    /\ UNCHANGED <<pipevars, perfvars, toolvars>>

\* Lines 394-408: None for an empty list, otherwise the metrics computed
\* over len(results).
test_concurrent_operations_return ==
    /\ conc.pc = "joined"
    /\ conc' = [conc EXCEPT
                  !.pc = "done",
                  !.ret =
                     IF conc.results = <<>>
                     THEN [kind |-> "None", operations |-> 0, successes |-> 0]
                     ELSE [kind |-> "PerformanceMetrics",
                           operations |-> Len(conc.results),
                           successes |->
                              Cardinality({k \in 1..Len(conc.results) :
                                             conc.results[k].success})]]
    /\ UNCHANGED runner
    /\ UNCHANGED <<pipevars, perfvars, toolvars>>

NextConcurrent ==
    \/ \E n \in 0..MaxIterations : test_concurrent_operations(n)
    \/ thread_start
    \/ \E t \in WorkerIds, o \in OpOutcomes : worker_thread(t, o)
    \/ \E t \in WorkerIds : results_extend(t)
    \/ thread_join
    \/ test_concurrent_operations_return

----------------------------------------------------------------------------
(* scripts/run_integration_tests.py: TestRunner *)

\* The two fields of TestConfig that run_all_tests reads.
TestConfig == [skip_llm_tests : BOOLEAN, skip_x64dbg_tests : BOOLEAN]

\* The run_test calls of run_all_tests for a configuration, in their order.
TestPlan(cfg) ==
    <<"Binary Execution", "Configuration Loading", "S-Expression Parser",
      "Logging System">>
    \o (IF cfg.skip_llm_tests THEN <<>>
        ELSE <<"LLM API (Mocked)", "LLM Error Handling">>)
    \o (IF cfg.skip_x64dbg_tests THEN <<>>
        ELSE <<"x64dbg Bridge (Mocked)">>)
    \o <<"Memory Analysis", "Pattern Matching", "Credential Storage",
         "API Key Validation", "Basic Performance", "CLI Commands",
         "REPL Session">>

\* TestRunner.__init__: self.results = [].
NewRunner ==
    [pc |-> "idle",
     config |-> [skip_llm_tests |-> FALSE, skip_x64dbg_tests |-> FALSE],
     calls |-> 0, results |-> <<>>, ret |-> "none"]

\* TestRunner(config).run_all_tests() is entered.
TestRunner_run_all_tests(cfg) ==
    /\ runner.pc = "idle"
    /\ runner' = [runner EXCEPT !.pc = "running", !.config = cfg]
    /\ UNCHANGED conc
    /\ UNCHANGED <<pipevars, perfvars, toolvars>>

\* A run_test without the except clause: the exception of a test function
\* leaves run_test and run_all_tests before anything is appended.
run_test_no_except(o) ==
    /\ runner.pc = "running"
    /\ runner.calls < Len(TestPlan(runner.config))
    /\ runner' =
          IF o = "raised"
          THEN [runner EXCEPT !.calls = @ + 1, !.pc = "done",
                              !.ret = "raised"]
          ELSE [runner EXCEPT
                  !.calls = @ + 1,
                  !.results =
                      Append(@, [name |-> TestPlan(runner.config)[runner.calls + 1],
                                 passed |-> TRUE])]
    /\ UNCHANGED conc
    /\ UNCHANGED <<pipevars, perfvars, toolvars>>

\* run_test(test_func, name), lines 72-90, for the next call of
\* run_all_tests: test_func(result) returns (passed = True) or raises an
\* Exception (passed = False, caught at line 82); the finally clause sets
\* the duration and self.results.append(result) follows in both cases.
run_test(o) ==
    /\ runner.pc = "running"
    /\ runner.calls < Len(TestPlan(runner.config))
    /\ runner' = [runner EXCEPT
                    !.calls = @ + 1,
                    !.results =
                        Append(@, [name |-> TestPlan(runner.config)[runner.calls + 1],
                                   passed |-> (o = "returned")])]
    /\ UNCHANGED conc
    /\ UNCHANGED <<pipevars, perfvars, toolvars>>

\* print_summary, lines 129-151, whose value run_all_tests returns:
\* failed = total - passed over self.results; return failed == 0.
print_summary ==
    /\ runner.pc = "running"
    /\ runner.calls = Len(TestPlan(runner.config))
    /\ LET total == Len(runner.results)
           passed == Cardinality({k \in 1..Len(runner.results) :
                                    runner.results[k].passed})
           failed == total - passed
       IN  runner' = [runner EXCEPT
                        !.pc = "done",
                        !.ret = IF failed = 0 THEN "True" ELSE "False"]
    /\ UNCHANGED conc
    /\ UNCHANGED <<pipevars, perfvars, toolvars>>

NextRunner ==
    \/ \E cfg \in TestConfig : TestRunner_run_all_tests(cfg)
    \/ \E o \in {"returned", "raised"} : run_test(o)
    \/ print_summary

\* The collaborators before any of their operations is called.
InitTools ==
    /\ scanner = NewScanner
    /\ builder = NewBuilder("x64", [exe |-> TRUE, plugin |-> TRUE,
                                    demo |-> TRUE, docs |-> DocSources])
    /\ tester = NewTester
    /\ conc = NewConc
    /\ runner = NewRunner

----------------------------------------------------------------------------
InitPipeline ==
    /\ config = DefaultConfig
    /\ pc = "idle"
    /\ running = "none"
    /\ proc = "none"
    /\ started = <<>>
    /\ returned = NoHistory
    /\ outcome = NoHistory
    /\ build_artifacts = EmptyRegistry
    /\ fs = {}
    /\ reports = {}
    /\ summary_doc = None
    /\ summary_written = FALSE
    /\ registered = {}
    /\ result = "none"
    /\ runs = 0

Init ==
    /\ InitPipeline
    /\ InitPerformance
    /\ InitTools

\* PackageBuilder(platform, config, output_dir) on any state of the disk.
InitPackage ==
    /\ InitPipeline
    /\ InitPerformance
    /\ scanner = NewScanner
    /\ tester = NewTester
    /\ conc = NewConc
    /\ runner = NewRunner
    /\ \E platform \in Platforms, env \in PackageEnv :
          builder = NewBuilder(platform, env)

InitStartup ==
    /\ InitPipeline
    /\ monitoring = [m \in Monitors |-> FALSE]
    /\ metrics = [m \in Monitors |-> <<>>]
    /\ threads = [t \in ThreadIds |-> Unborn]
    /\ child = [state |-> "none", of |-> 1]
    /\ \E n \in 0..MaxMonitors :
          main = [pc |-> "t_loop", mon |-> 1, memory_rss |-> <<>>,
                  cpu_values |-> <<>>, iter |-> 0, iterations |-> n,
                  calls |-> 0]
    /\ rets = <<>>
    /\ InitTools

Next ==
    \/ \E cfg \in BuildConfig : run_full_pipeline(cfg)
    \/ \E s \in Stages : CallStage(s)
    \/ \E s \in ProcessStages, o \in ProcOutcomes, creates \in BOOLEAN :
          subprocess_run(s, o, creates)
    \/ \E p \in AllPaths : RemoveFile(p)
    \/ \E env \in {"ok", "toolmissing", "oserror"} : _setup_environment(env)
    \/ _run_build
    \/ \E w \in BOOLEAN : _run_unit_tests(w)
    \/ \E w \in BOOLEAN : _run_integration_tests(w)
    \/ \E w \in BOOLEAN : _run_security_scan(w)
    \/ \E w \in BOOLEAN : _run_performance_tests(w)
    \/ _run_static_analysis
    \/ _run_packaging
    \/ \E w \in BOOLEAN : _final_verification(w)

Spec == Init /\ [][Next]_vars

\* The steps of a run: the orchestrator calls the next stage, the stage's
\* external process exits or reaches its timeout, the stage returns.
StageSteps ==
    \/ \E s \in Stages : CallStage(s)
    \/ \E s \in ProcessStages, o \in ProcOutcomes, creates \in BOOLEAN :
          subprocess_run(s, o, creates)
    \/ \E env \in {"ok", "toolmissing", "oserror"} : _setup_environment(env)
    \/ _run_build
    \/ \E w \in BOOLEAN : _run_unit_tests(w)
    \/ \E w \in BOOLEAN : _run_integration_tests(w)
    \/ \E w \in BOOLEAN : _run_security_scan(w)
    \/ \E w \in BOOLEAN : _run_performance_tests(w)
    \/ _run_static_analysis
    \/ _run_packaging
    \/ \E w \in BOOLEAN : _final_verification(w)

\* The orchestrator's thread keeps running and every subprocess.run call
\* ends, by exit or by its timeout.
SpecLive == Spec /\ WF_vars(StageSteps)

SpecMonitor == Init /\ [][NextMonitor]_vars

\* Every sampler thread that has been started keeps being scheduled: its
\* loop test, its sampling attempt and the end of its sleep each happen.
SamplerSteps(t) ==
    \/ monitor_loop_test(t)
    \/ \E m \in Sample, granted \in BOOLEAN : monitor_loop_body(t, m, granted)
    \/ monitor_loop_sleep(t)

SpecMonitorFair ==
    SpecMonitor /\ \A t \in ThreadIds : WF_vars(SamplerSteps(t))

SpecStartup == InitStartup /\ [][NextStartup]_vars

SpecScan == Init /\ [][NextScan]_vars

SpecPackage == InitPackage /\ [][NextPackage]_vars

SpecTester == Init /\ [][NextTester]_vars

SpecConcurrent == Init /\ [][NextConcurrent]_vars

SpecRunner == Init /\ [][NextRunner]_vars

TypeOK ==
    /\ config \in BuildConfig
    /\ pc \in Stages \cup {"idle", "done"}
    /\ running \in Stages \cup {"none"}
    /\ proc \in ProcOutcomes \cup {"none"}
    /\ result \in {"none", "True", "False"}
    /\ runs \in 0..MaxRuns

----------------------------------------------------------------------------
(* The failure policy table the stages are declared with *)

FATAL ==
    { "_setup_environment", "_run_build", "_run_unit_tests",
      "_run_packaging", "_final_verification" }

ADVISORY ==
    { "_run_integration_tests", "_run_security_scan",
      "_run_performance_tests", "_run_static_analysis" }

StartedSet == { started[i] : i \in 1..Len(started) }

LastStarted == started[Len(started)]

\* The toggle that guards stage s in run_full_pipeline.
Toggle(s) ==
    CASE s \in {"_run_unit_tests", "_run_integration_tests"} -> config.enable_tests
      [] s = "_run_security_scan"     -> config.enable_security_scan
      [] s = "_run_performance_tests" -> config.enable_performance_test
      [] s = "_run_packaging"         -> config.enable_packaging
      [] OTHER                        -> TRUE

----------------------------------------------------------------------------
(* C1: for every toggle combination and every stage outcome, the stages a   *)
(* run has started form a subsequence of the fixed order: strictly          *)
(* increasing positions (so none twice, none before a predecessor), and no  *)
(* stage whose toggle is off.                                               *)
C1_FixedStageOrder ==
    /\ \A i, j \in 1..Len(started) :
          i < j => StageIndex(started[i]) < StageIndex(started[j])
    /\ \A i \in 1..Len(started) : Toggle(started[i])

C1_Witness ==
    /\ pc = "done"
    /\ result = "True"
    /\ ~config.enable_security_scan
    /\ ~config.enable_packaging
    /\ started = << "_setup_environment", "_run_build", "_run_unit_tests",
                    "_run_integration_tests", "_run_performance_tests",
                    "_run_static_analysis", "_final_verification" >>

(* C2: a run in which no FATAL stage failed returns True, whatever way the  *)
(* ADVISORY stages failed.                                                  *)
C2_AdvisoryNeverFails ==
    (pc = "done" /\ \A s \in FATAL : returned[s] \notin {"False", "raised"})
        => result = "True"

(* C3: once a FATAL stage has returned failure, the run has returned False  *)
(* and the failed stage is the last stage started in that run.              *)
C3_FatalHalts ==
    \A s \in FATAL :
        returned[s] = "False" =>
            /\ pc = "done"
            /\ running = "none"
            /\ result = "False"
            /\ LastStarted = s

C3_Witness ==
    /\ returned["_run_unit_tests"] = "False"
    /\ returned["_run_build"] = "True"
    /\ pc = "done"
    /\ Len(started) = 3

(* C4: when run_full_pipeline has returned, build_summary.json has been     *)
(* written for that run.                                                    *)
C4_SummaryOnEveryRun ==
    pc = "done" => summary_written

(* C5: when run_full_pipeline has returned, the summary document exists and *)
(* its "success" flag equals the returned value.                            *)
C5_SuccessFlagIsResult ==
    pc = "done" =>
        /\ summary_doc # None
        /\ summary_doc.build_info.success <=> (result = "True")

(* C6: the summary written for a run has an entry for exactly the stages    *)
(* that were executed in the run.                                           *)
SummaryStages(doc) ==
    { s \in { "_run_unit_tests", "_run_integration_tests",
              "_run_security_scan", "_run_performance_tests" } :
        ReportFile(s) \in doc.reports }

C6_PerStageLog ==
    (pc = "done" /\ summary_written) => SummaryStages(summary_doc) = StartedSet

(* C7: when the build process exited with code 0 and the binary file does   *)
(* not exist, the Build stage returns False, leaves the registry as it was, *)
(* starts nothing further and run_full_pipeline returns False.              *)
C7_BuildWithoutBinaryFails ==
    [][ ( /\ running = "_run_build"
          /\ proc = "exit0"
          /\ BinaryPath(config) \notin fs
          /\ running' = "none" )
        => /\ returned'["_run_build"] = "False"
           /\ build_artifacts' = build_artifacts
           /\ registered' = registered
           /\ started' = started
           /\ pc' = "done"
           /\ result' = "False" ]_vars

C7_Witness ==
    /\ outcome["_run_build"] = "exit0"
    /\ returned["_run_build"] = "False"
    /\ "binary" \notin registered
    /\ pc = "done"
    /\ result = "False"
    /\ LastStarted = "_run_build"

(* C8: with packaging enabled, when Packaging returned success without      *)
(* registering the package (exit code 0, package file absent), Final        *)
(* verification does not succeed and the run returns False.                 *)
C8_VerificationBackstop ==
    ( /\ pc = "done"
      /\ config.enable_packaging
      /\ returned["_run_packaging"] = "True"
      /\ "package" \notin registered )
    => /\ returned["_final_verification"] # "True"
       /\ result = "False"

(* C9 as claimed: Final verification returns success if and only if every   *)
(* required artifact name is registered and its file exists at the check.   *)
RequiredNames ==
    IF config.enable_packaging THEN {"binary", "package"} ELSE {"binary"}

RequiredPresent ==
    \A a \in RequiredNames :
        build_artifacts[a] # None /\ build_artifacts[a] \in fs

FinalVerificationEnds ==
    running = "_final_verification" /\ running' = "none"

C9_VerificationIffPresent ==
    [][ FinalVerificationEnds =>
          (returned'["_final_verification"] = "True" <=> RequiredPresent) ]_vars

(* C9 amended: Final verification returns success if and only if every      *)
(* required artifact name is registered, its file exists at the check, and  *)
(* the summary document is written without error; a required artifact that *)
(* is missing or whose file is gone makes it return False and the run       *)
(* return False.                                                            *)
C9_VerificationIffPresentAndWritten ==
    [][ FinalVerificationEnds =>
          /\ returned'["_final_verification"] = "True"
                <=> (RequiredPresent /\ summary_written')
          /\ ~RequiredPresent =>
                /\ returned'["_final_verification"] = "False"
                /\ result' = "False"
                /\ ~summary_written' ]_vars

C9_Witness ==
    /\ pc = "done"
    /\ ~config.enable_packaging
    /\ "binary" \in registered
    /\ build_artifacts["binary"] \notin fs
    /\ returned["_final_verification"] = "False"
    /\ result = "False"

(* C10: every write to the registry is made by the producing stage of the   *)
(* name ("binary" by Build, "package" by Packaging), after its process      *)
(* exited with code 0 and with the artifact file existing at that moment;   *)
(* a name registered in a run has a producer whose process exited with 0.   *)
Producer(n) == IF n = "binary" THEN "_run_build" ELSE "_run_packaging"

RegistryWrite(n) ==
    \/ build_artifacts'[n] # build_artifacts[n]
    \/ n \in registered' \ registered

C10_RegistryWrites ==
    /\ [](\A n \in registered :
             /\ outcome[Producer(n)] = "exit0"
             /\ build_artifacts[n] # None)
    /\ [][ \A n \in ArtifactNames :
             RegistryWrite(n) =>
                /\ running = Producer(n)
                /\ proc = "exit0"
                /\ build_artifacts'[n] # None
                /\ build_artifacts'[n] \in fs
                /\ fs' = fs ]_vars

C10_Witness ==
    /\ registered = {"binary", "package"}
    /\ outcome["_run_build"] = "exit0"
    /\ outcome["_run_packaging"] = "exit0"

(* C11: the registry is empty when a run starts, on the first and on every  *)
(* later run_full_pipeline call of the same manager.                        *)
C11_RegistryEmptyAtRunStart ==
    (pc = "_setup_environment" /\ running = "none" /\ started = <<>>)
        => build_artifacts = EmptyRegistry

(* C12: no step removes a name from the registry: a name that is present    *)
(* before a step is present after it.                                       *)
RegistryNames == { n \in ArtifactNames : build_artifacts[n] # None }

C12_RegistryGrows ==
    [][ RegistryNames \subseteq RegistryNames' ]_vars

C12_Witness ==
    /\ registered = {"binary", "package"}
    /\ RegistryNames = {"binary", "package"}
    /\ returned["_run_packaging"] = "True"
    /\ pc = "_final_verification"

(* C13: the "artifacts" object of the summary written in a run, parsed      *)
(* back, is the registry that Final verification ran on: same names, same   *)
(* paths, nothing added or dropped.                                         *)
ParseArtifacts(members) ==
    [ n \in ArtifactNames |->
        IF \E m \in members : m[1] = n
        THEN (CHOOSE m \in members : m[1] = n)[2]
        ELSE None ]

C13_SummaryRoundTrip ==
    summary_written =>
        /\ ParseArtifacts(summary_doc.artifacts) = build_artifacts
        /\ \A m1, m2 \in summary_doc.artifacts : m1[1] = m2[1] => m1 = m2

C13_Witness ==
    /\ summary_written
    /\ ~config.enable_packaging
    /\ build_artifacts["package"] # None
    /\ build_artifacts["binary"] # None

(* C14: a stage whose external process timed out or could not be launched   *)
(* gets the decision of its declared policy: Build, Unit tests and          *)
(* Packaging end the run with False, Integration tests, Security scan and   *)
(* Performance tests do not end the run.                                    *)
EndedRun(s) ==
    pc = "done" /\ result = "False" /\ LastStarted = s

C14_LaunchFailureAndTimeoutFollowPolicy ==
    \A s \in ProcessStages :
        (returned[s] # "none" /\ outcome[s] \in {"timeout", "launchfail"}) =>
            IF s \in {"_run_build", "_run_unit_tests", "_run_packaging"}
            THEN EndedRun(s)
            ELSE ~EndedRun(s)

(* C16: when Integration tests, Security scan or Performance tests has      *)
(* returned after a timeout or a launch failure of its process, its report  *)
(* file has been written.                                                   *)
C16_ReportOnEveryFailurePath ==
    \A s \in { "_run_integration_tests", "_run_security_scan",
               "_run_performance_tests" } :
        (returned[s] # "none" /\ outcome[s] \in {"timeout", "launchfail"})
            => ReportFile(s) \in reports

(* C17: an exception raised inside a stage body (creating directories,      *)
(* writing the summary) ends the run with the return value False; an        *)
(* exception while writing a report file is a False return of the stage.    *)
C17_NoErrorEscapes ==
    /\ \A s \in Stages :
          returned[s] = "raised" => pc = "done" /\ result = "False"
    /\ pc = "done" => result \in {"True", "False"}
    /\ \A s \in ProcessStages : returned[s] # "raised"

C17_Witness ==
    /\ returned["_final_verification"] = "raised"
    /\ pc = "done"
    /\ result = "False"
    /\ ~summary_written

(* C18: at most one started stage has not returned, it is the last one      *)
(* started, and every stage started before it has returned.                 *)
C18_OneStageAtATime ==
    /\ Cardinality({ i \in 1..Len(started) : returned[started[i]] = "none" }) <= 1
    /\ \A i \in 1..Len(started) :
          i < Len(started) => returned[started[i]] # "none"
    /\ running # "none" =>
          /\ started # <<>>
          /\ running = LastStarted
          /\ returned[running] = "none"

C18_Witness ==
    /\ running = "_run_security_scan"
    /\ Len(started) = 5
    /\ returned["_run_integration_tests"] = "True"

(* C15: when the wait on the child of the startup-time sub-test has ended   *)
(* by timeout, the child is no longer running.                              *)
C15_TimedOutChildIsTerminated ==
    main.pc = "t_timeout" => child.state # "running"

(* C19 as claimed: a stop_monitoring call that finds no sample in the       *)
(* buffer does not raise and returns a record whose sample_count is 0.      *)
StopReturns == Len(rets') = Len(rets) + 1

LastRet == rets'[Len(rets')]

C19_StopBeforeFirstSampleCountsZero ==
    [][ (StopReturns /\ metrics[main.mon] = <<>>) =>
          /\ ~LastRet.raised
          /\ "sample_count" \in DOMAIN LastRet.value
          /\ LastRet.value["sample_count"] = 0 ]_vars

(* C19 amended: a stop_monitoring call that finds no sample in the buffer   *)
(* when it tests the buffer does not raise and returns the empty dict, a    *)
(* record without a sample_count field; every record that has the field     *)
(* has sample_count >= 1.                                                   *)
C19_StopBeforeFirstSampleReturnsEmptyDict ==
    [][ StopReturns =>
          /\ metrics[main.mon] = <<>> =>
                /\ ~LastRet.raised
                /\ DOMAIN LastRet.value = {}
          /\ metrics[main.mon] # <<>> =>
                /\ "sample_count" \in DOMAIN LastRet.value
                /\ LastRet.value["sample_count"] >= 1 ]_vars

C19_Witness ==
    /\ Len(rets) = 2
    /\ rets[1] = EmptyDict
    /\ rets[2] = EmptyDict
    /\ threads[1].pc # "unborn"
    /\ child.state = "exited"

(* C20: neither the first nor the second stop_monitoring call on a monitor  *)
(* raises, under every interleaving with the sampler threads.               *)
C20_StopTwiceNeverRaises ==
    \A i \in 1..Len(rets) : ~rets[i].raised

C20_Witness ==
    /\ Len(rets) = 2
    /\ DOMAIN rets[1].value # {}
    /\ DOMAIN rets[2].value # {}
    /\ rets[1].value["cpu_peak"] = 0
    /\ \E t \in ThreadIds : threads[t].pc \in {"body", "sleep"}

(* C21: a sampling attempt at which the monitored process is gone or cannot *)
(* be queried appends nothing and leaves the sampler thread alive: the      *)
(* thread sleeps and then tests the flag again. No stop_monitoring call     *)
(* raises because of it.                                                    *)
C21_MissedSampleIsNotAnError ==
    /\ [](\A i \in 1..Len(rets) : rets[i].raised = FALSE)
    /\ [][ \A t \in ThreadIds :
             /\ (threads[t].pc = "body" /\ threads'[t] # threads[t]
                    /\ ~(child.state = "running"
                           /\ child.of = threads[t].mon)) =>
                   /\ metrics' = metrics
                   /\ threads'[t].pc = "sleep"
             /\ (threads[t].pc = "sleep" /\ threads'[t] # threads[t]) =>
                   threads'[t].pc = "test" ]_vars

C21_Witness ==
    /\ threads[1] = [mon |-> 1, pc |-> "sleep"]
    /\ \A t \in ThreadIds \ {1} : threads[t].pc = "unborn"
    /\ child.state = "exited"
    /\ metrics[1] = <<>>
    /\ monitoring[1]

(* C22: when the startup-time sub-test is over, by return or by an          *)
(* exception, every monitor it started has been stopped.                    *)
SubTestOver == main.pc \in {"t_return", "t_timeout", "t_raised"}

C22_EveryStartedSamplerIsStopped ==
    SubTestOver => \A m \in Monitors : ~monitoring[m]

(* C23: at most one sampler thread of a monitor is at a point where it      *)
(* appends to the monitor's buffer.                                         *)
Writers(m) == { t \in ThreadIds : threads[t].mon = m /\ threads[t].pc = "body" }

C23_SingleWriter ==
    \A m \in Monitors : Cardinality(Writers(m)) <= 1

(* C28: the record of a stop_monitoring call counts exactly the samples     *)
(* over which its memory statistics were computed.                          *)
C28_ConsistentSnapshot ==
    \A i \in 1..Len(rets) :
        DOMAIN rets[i].value # {} =>
            rets[i].value["sample_count"] = rets[i].value["memory_average"][2]

(* C29: when stop_monitoring returns, the buffer of its monitor is empty.   *)
C29_BufferEmptyAfterStop ==
    [][ Len(rets') = Len(rets) + 1 => metrics'[main.mon] = <<>> ]_vars

(* C30: every step of stop_monitoring can be taken in every state of the    *)
(* sampler threads; none waits for a thread to sample, wake up or exit.     *)
C30_StopNeverWaits ==
    /\ main.pc = "stop_93" => ENABLED stop_monitoring_93
    /\ main.pc = "stop_96" => ENABLED stop_monitoring_96
    /\ main.pc = "stop_97" => ENABLED stop_monitoring_97
    /\ main.pc = "stop_99" => ENABLED stop_monitoring_99
    /\ main.pc = "t_stop" => ENABLED stop_monitoring_91

C30_Witness ==
    /\ main.pc = "stop_96"
    /\ \E t \in ThreadIds :
          threads[t].mon = main.mon /\ threads[t].pc \in {"body", "sleep"}

(* C24 as claimed: run_full_scan returns True exactly when the findings     *)
(* list holds no finding of severity high.                                  *)
NoHigh(findings) ==
    \A i \in 1..Len(findings) : findings[i].severity # "high"

ReportSaved == DOMAIN scanner.report # {}

C25_ManifestEnumeratesArchive ==
    (builder.pc = "done" /\ builder.env.exe) =>
        /\ builder.archive # None
        /\ builder.manifest # None
        /\ builder.manifest = builder.archive

(* C26: the path at which the packaging collaborator writes its archive for *)
(* a platform and the output directory "artifacts" is the path the          *)
(* Packaging stage checks and registers: a packaging process that exited    *)
(* with 0 and whose archive is on disk leads to "package" being registered  *)
(* with that path.                                                          *)
C26_ArchivePathIsRegisteredPath ==
    [][ ( /\ running = "_run_packaging"
          /\ running' # running
          /\ proc = "exit0"
          /\ ZipPath(config.platform, "artifacts") \in fs ) =>
            /\ build_artifacts'["package"] =
                  ZipPath(config.platform, "artifacts")
            /\ "package" \in registered' ]_vars

C26_Witness ==
    /\ outcome["_run_packaging"] = "exit0"
    /\ returned["_run_packaging"] = "True"
    /\ config.platform = "x86"
    /\ build_artifacts["package"] = ZipPath("x86", "artifacts")
    /\ ZipPath("x86", "artifacts") \in fs

(* C27 as claimed: run_all_tests returns True exactly when every one of the *)
(* eight sub-tests produced a metrics record.                               *)
AllProduced ==
    /\ Len(tester.outcomes) = Len(tests)
    /\ \A i \in 1..Len(tests) : tester.outcomes[i] = "metrics"

C27_SuccessIffEightRecords ==
    tester.pc = "done" => (tester.ret = "True" <=> AllProduced)

(* C27 amended: run_all_tests calls all eight sub-tests in their order      *)
(* whatever the earlier ones did, stores one record per sub-test that       *)
(* returned metrics and none for the others, and returns True exactly when  *)
(* all eight produced a record and performance_report.json was written;     *)
(* when the report cannot be written the exception leaves run_all_tests.    *)
Produced(i) == tester.outcomes[i] = "metrics"

C27_SuccessIffEightRecordsAndReport ==
    tester.pc = "done" =>
        /\ Len(tester.outcomes) = Len(tests)
        /\ Len(tester.results) =
              Cardinality({ i \in 1..Len(tests) : Produced(i) })
        /\ \A i \in 1..Len(tests) :
              Produced(i) <=>
                 \E j \in 1..Len(tester.results) : tester.results[j] = tests[i]
        /\ tester.ret = "True" <=>
              AllProduced /\ DOMAIN tester.report # {}
        /\ tester.ret = "raised" <=> DOMAIN tester.report = {}

C27_Witness ==
    /\ tester.pc = "done"
    /\ tester.ret = "False"
    /\ tester.outcomes[1] = "raised"
    /\ tester.outcomes[2] = "None"
    /\ Len(tester.results) = 6

(* C33: in a run that returned True the stages that were executed are       *)
(* exactly the stages whose toggle is on; the four stages without a toggle  *)
(* are always among them.                                                   *)
C33_ExecutedStagesFollowToggles ==
    (pc = "done" /\ result = "True") =>
        /\ StartedSet = { s \in Stages : Toggle(s) }
        /\ { "_setup_environment", "_run_build", "_run_static_analysis",
             "_final_verification" } \subseteq StartedSet

C33_Witness ==
    /\ pc = "done"
    /\ result = "True"
    /\ ~config.enable_tests
    /\ config.enable_security_scan
    /\ ~config.enable_performance_test
    /\ config.enable_packaging
    /\ StartedSet = { "_setup_environment", "_run_build", "_run_security_scan",
                      "_run_static_analysis", "_run_packaging",
                      "_final_verification" }

(* C34: whenever a stage after Build has been started in a run, the         *)
(* registry holds "binary"; Integration tests and Performance tests never   *)
(* return through their branch for a missing binary path.                   *)
AfterBuild == { s \in Stages : StageIndex(s) > StageIndex("_run_build") }

C34_BinaryRegisteredAfterBuild ==
    /\ (StartedSet \cap AfterBuild # {}) => build_artifacts["binary"] # None
    /\ running \in {"_run_integration_tests", "_run_performance_tests"} =>
          build_artifacts["binary"] # None

C34_Witness ==
    /\ running = "_run_performance_tests"
    /\ proc = "none"
    /\ runs = 1
    /\ build_artifacts["binary"] = BinaryPath(config)
    /\ "_run_integration_tests" \in StartedSet

(* C32: every run_full_pipeline call that has begun eventually returns True *)
(* or False, given that each external process exits or reaches its stage    *)
(* timeout.                                                                 *)
C32_EveryRunTerminates ==
    (pc \notin {"idle", "done"}) ~> (pc = "done" /\ result \in {"True", "False"})

C32_Witness ==
    /\ pc = "done"
    /\ result = "False"
    /\ outcome["_run_packaging"] = "timeout"
    /\ Len(started) = 8

(* C35: a second stop_monitoring call that follows the first with no        *)
(* start_monitoring in between returns the sample_count of the first.       *)
C35_SecondStopSameCount ==
    ( /\ Len(rets) >= 2
      /\ \A t \in ThreadIds \ {1} : threads[t].pc = "unborn"
      /\ DOMAIN rets[1].value # {}
      /\ DOMAIN rets[2].value # {} ) =>
        rets[2].value["sample_count"] = rets[1].value["sample_count"]

(* C36: when the calls on a monitor end with stop_monitoring, so that its   *)
(* flag stays False from some point on, every sampler thread started for    *)
(* the monitor has left its loop from some point on.                        *)
C36_SamplersExitAfterStop ==
    \A m \in Monitors :
        <>[](~monitoring[m]) =>
            <>[](\A t \in ThreadIds :
                    threads[t].mon = m => threads[t].pc = "exited")

C36_Witness ==
    /\ ~monitoring[1]
    /\ main.pc = "idle"
    /\ threads[1] = [mon |-> 1, pc |-> "exited"]
    /\ threads[2] = [mon |-> 1, pc |-> "exited"]
    /\ Len(rets) = 1

(* C31: every step of a scan run leaves the findings recorded so far in     *)
(* place, in their order, and only adds to their end: nothing is removed,   *)
(* replaced, reordered or merged with an equal earlier finding.             *)
IsPrefix(a, b) ==
    /\ Len(a) <= Len(b)
    /\ \A i \in 1..Len(a) : a[i] = b[i]

C31_FindingsAppendOnly ==
    [][ IsPrefix(scanner.findings, scanner'.findings) ]_vars

C31_Witness ==
    /\ scanner.pc = "done"
    /\ Len(scanner.findings) >= 3
    /\ scanner.findings[1] = scanner.findings[2]
    /\ scanner.findings[1].type = "credential_leak"
    /\ scanner.findings[3].type # "credential_leak"

(* C37 as claimed: run_full_scan returns False exactly when                 *)
(* scan_credential_leaks recorded a finding.                                *)
CredentialLeakRecorded ==
    \E i \in 1..Len(scanner.findings) :
        scanner.findings[i].type = "credential_leak"

C37_FalseIffCredentialLeak ==
    scanner.pc = "done" => (scanner.ret = "False" <=> CredentialLeakRecorded)

(* C37 amended: credential-leak findings and only they carry severity high  *)
(* (source-code and dependency findings are medium, configuration findings  *)
(* low, binary findings medium or low), and run_full_scan returns False     *)
(* exactly when scan_credential_leaks recorded a finding and                *)
(* security_report.json was written; when the report cannot be written the  *)
(* exception of the write leaves run_full_scan.                             *)
SeverityByType(type) ==
    CASE type = "credential_leak" -> {"high"}
      [] type \in {"code_vulnerability", "dependency_vulnerability"} -> {"medium"}
      [] type = "configuration_issue" -> {"low"}
      [] type = "binary_security" -> {"medium", "low"}

C37_FalseIffCredentialLeakAndReported ==
    /\ \A i \in 1..Len(scanner.findings) :
          scanner.findings[i].severity \in SeverityByType(scanner.findings[i].type)
    /\ scanner.pc = "done" =>
          (scanner.ret = "False" <=> CredentialLeakRecorded /\ ReportSaved)

C37_Witness ==
    /\ scanner.pc = "done"
    /\ scanner.ret = "False"
    /\ Len(scanner.findings) = 1
    /\ scanner.findings[1].type = "credential_leak"

(* C39: after the four worker threads of the concurrent-operations sub-test *)
(* have been joined, the shared list holds exactly 4 * (iterations // 4)    *)
(* results: one for every operation of every worker, none lost and none     *)
(* twice, whatever the interleaving of the workers was.                     *)
Occurrences(t, i) ==
    Cardinality({k \in 1..Len(conc.results) :
                   /\ conc.results[k].thread_id = t
                   /\ conc.results[k].i = i})

C39_AllResultsAfterJoin ==
    conc.pc \in {"joined", "done"} =>
       /\ Len(conc.results) = 4 * (conc.iterations \div 4)
       /\ \A t \in 0..3 :
             \A i \in 0..conc.iterations :
                i < conc.iterations \div 4 => Occurrences(t, i) = 1

(* C40: every run_test call of the integration harness appends exactly one  *)
(* result, for a test that passed and for a test that raised; a test that   *)
(* raised does not keep the tests after it from running (when               *)
(* run_all_tests has returned, the results are those of all the tests of    *)
(* the configuration, in their order); and run_all_tests returns True       *)
(* exactly when no recorded result is a failure.                            *)
ExpectedTests(cfg) ==
    <<"Binary Execution", "Configuration Loading", "S-Expression Parser",
      "Logging System">>
    \o (IF ~cfg.skip_llm_tests
        THEN <<"LLM API (Mocked)", "LLM Error Handling">> ELSE <<>>)
    \o (IF ~cfg.skip_x64dbg_tests
        THEN <<"x64dbg Bridge (Mocked)">> ELSE <<>>)
    \o <<"Memory Analysis", "Pattern Matching", "Credential Storage",
         "API Key Validation", "Basic Performance", "CLI Commands",
         "REPL Session">>

NoFailureRecorded ==
    \A k \in 1..Len(runner.results) : runner.results[k].passed

C40_OneResultPerTestAndVerdict ==
    /\ Len(runner.results) = runner.calls
    /\ runner.pc = "done" =>
          /\ [k \in 1..Len(runner.results) |-> runner.results[k].name]
                = ExpectedTests(runner.config)
          /\ runner.ret \in {"True", "False"}
          /\ (runner.ret = "True") <=> NoFailureRecorded

\* run_all_tests has returned False: the first test raised, its result was
\* recorded as a failure and every later test ran and passed.
C40_Witness ==
    /\ runner.pc = "done"
    /\ runner.ret = "False"
    /\ Len(runner.results) = Len(ExpectedTests(runner.config))
    /\ ~runner.results[1].passed
    /\ \A k \in 2..Len(runner.results) : runner.results[k].passed

====
